---- MODULE Spec2Model ----
(***************************************************************************)
(* A model of the litdb command line (src/litdb/cli.py): the directory     *)
(* scan (index, reindex), the saved filters (add_filter, rm_filter,        *)
(* follow, watch, citing, related, update_filters) and the similar lookup. *)
(* Strings are TLA+ strings; the str methods the code uses are operators.  *)
(***************************************************************************)
EXTENDS Integers, Sequences, FiniteSets, TLC

VARIABLES
    sources,      \* table sources: identifier -> number of rows that hold it
    directories,  \* table directories: path -> last_updated
    queries,      \* table queries: filter -> [description, last_updated]
    today,        \* datetime.date.today(), as a day number
    pc,           \* position of the running command ("idle": none running)
    cmd,          \* the command started last
    args,         \* index: the SOURCES tuple it was called with
    idxTodo,      \* index: the directories the for loop of line 134 has left
    directory,    \* index: the resolved directory being walked
    walk,         \* index: the files rglob has still to yield
    nested,       \* index: TRUE when called as index([directory]) from reindex
    reindexList,  \* reindex: the rows fetchall returned (line 175)
    reindexTodo,  \* reindex: the rows its for loop has left
    filterList,   \* update_filters: the rows (filter -> last_updated) of fetchall (line 314) its for loop has left
    attempts,     \* log of this run: the add([fname]) calls
    skipped,      \* log of this run: the files skipped as already known
    written,      \* log of this run: the directories rows written (lines 161-169)
    full0,        \* log of this run: every recognized file of its directories was stored when it started
    invoked,      \* log of this run: the filters update_filter was called for
    last,         \* log: the last filter command, its target and what it met
    out           \* similar: its arguments and the identifiers it printed, last call

vars == <<sources, directories, queries, today, pc, cmd, args, idxTodo,
          directory, walk, nested, reindexList, reindexTodo, filterList,
          attempts, skipped, written, full0, invoked, last, out>>

\* Bounds of the model.
MaxDay == 2
MaxN == 2

NULL == "NULL"

\* last_updated of a filter that was never synced (the column is NULL).
Never == 0

\* What similar has printed when it never ran.
NoOutput == [source |-> NULL, n |-> 0, rows |-> <<>>]

\* The log of the last filter command when none ran.
NoCommand == [cmd |-> "none", filter |-> NULL, remove |-> FALSE, existed |-> FALSE,
              raised |-> "none"]

(***************************************************************************)
(* str and pathlib operations                                              *)
(***************************************************************************)
StartsWith(s, p) == Len(s) >= Len(p) /\ SubSeq(s, 1, Len(p)) = p
EndsWith(s, p) == Len(s) >= Len(p) /\ SubSeq(s, Len(s) - Len(p) + 1, Len(s)) = p
Contains(s, p) == \E i \in 1..(Len(s) - Len(p) + 1) : SubSeq(s, i, i + Len(p) - 1) = p

\* Positions of character c in s.
Positions(s, c) == {i \in 1..Len(s) : SubSeq(s, i, i) = c}
Max(S) == CHOOSE x \in S : \A y \in S : y <= x

\* PurePath.name: the final path component.
PathName(s) ==
    IF Positions(s, "/") = {} THEN s
    ELSE SubSeq(s, Max(Positions(s, "/")) + 1, Len(s))

\* PurePath.suffix: the last dot of the name onwards, unless the name starts
\* or ends with that dot.
Suffix(s) ==
    LET name == PathName(s)
        dots == Positions(name, ".")
    IN  IF dots = {} THEN ""
        ELSE LET i == Max(dots)
             IN  IF 1 < i /\ i < Len(name) THEN SubSeq(name, i, Len(name)) ELSE ""

\* The working directory of the process.
Cwd == "/"

\* pathlib.Path(directory).resolve(), then str(): absolute, no trailing slash.
RECURSIVE StripSlash(_)
StripSlash(s) ==
    IF Len(s) > 1 /\ EndsWith(s, "/") THEN StripSlash(SubSeq(s, 1, Len(s) - 1)) ELSE s
Resolve(s) == StripSlash(IF StartsWith(s, "/") THEN s ELSE Cwd \o s)

(***************************************************************************)
(* The file system and the external services (fixed during a check)        *)
(***************************************************************************)
AllFiles == {"/lib/a.pdf", "/lib/b.md", "/docs/orcid/c.pdf", "/docs/d.bib", "/docs/e.txt"}

\* directory.rglob('*'): every file below the directory.
Rglob(d) == {f \in AllFiles : StartsWith(f, d \o "/")}

RecognizedSuffixes == {".pdf", ".docx", ".pptx", ".org", ".md", ".html", ".bib", ".ipynb"}
Recognized(f) == Suffix(f) \in RecognizedSuffixes

\* The embedding of the text of an identifier (embedding model: deterministic).
\* a.pdf and b.md hold the same text.
Embedding(s) ==
    CASE s = "/lib/a.pdf" -> 1
      [] s = "/lib/b.md" -> 1
      [] s = "/docs/d.bib" -> 2
      [] OTHER -> 3

(***************************************************************************)
(* The corpus store                                                        *)
(***************************************************************************)
Ids(rows) == DOMAIN rows

\* add_source and its relatives (db.py): one row per identifier, an identifier
\* already stored is skipped.
Submit(rows, id) ==
    IF id \in Ids(rows) THEN rows
    ELSE [i \in Ids(rows) \cup {id} |-> IF i = id THEN 1 ELSE rows[i]]

\* The works the bibliographic service knows for an author or a work url.
RemoteWork(s) ==
    CASE s = "https://orcid.org/0000-0001" -> "https://openalex.org/W2"
      [] s = "cites:https://openalex.org/W1" -> "https://openalex.org/W2"
      [] OTHER -> NULL

\* add_work / add_author (db.py): store the works found for the source.
AddRemote(rows, s) ==
    IF RemoteWork(s) = NULL THEN rows
    ELSE Submit(rows, RemoteWork(s))

(***************************************************************************)
(* add: the adapter chosen for one source (lines 62-123)                   *)
(***************************************************************************)
AddDispatch(source) ==
    CASE StartsWith(source, "10.") \/ Contains(source, "doi.org") -> "work"
      [] OTHER ->
    CASE Contains(source, "orcid") -> "author"
      [] OTHER ->
    CASE EndsWith(source, ".bib") -> "bibtex"
      [] OTHER ->
    CASE EndsWith(source, ".pdf") -> "pdf"
      [] OTHER ->
    CASE EndsWith(source, ".docx") -> "docx"
      [] OTHER ->
    CASE EndsWith(source, ".pptx") -> "pptx"
      [] OTHER ->
    CASE EndsWith(source, ".html") -> "html"
      [] OTHER ->
    CASE StartsWith(source, "http") -> "url"
      [] OTHER ->
    CASE EndsWith(source, ".ipynb") -> "ipynb"
      [] OTHER -> "text"

\* The rows after add(source) ran to its end.
AddEffect(rows, source) ==
    LET a == AddDispatch(source)
    IN  IF a \in {"work", "author"}
        THEN AddRemote(rows, IF StartsWith(source, "10.") THEN "https://doi.org/" \o source ELSE source)
        ELSE Submit(rows, source)

(***************************************************************************)
(* Calling a click command as a function                                   *)
(***************************************************************************)
\* What happened inside the callback of add([fname]).
Outcomes == {"ok", "error", "interrupt"}

\* add([fname]) and index([directory]) run click's main() in standalone
\* mode: a normal return ends in sys.exit(0), KeyboardInterrupt becomes Abort
\* and then sys.exit(1), any other exception is passed on.
ClickMain(outcome) ==
    CASE outcome = "ok" -> "SystemExit"
      [] outcome = "interrupt" -> "SystemExit"
      [] OTHER -> "Exception"

\* index, lines 151-156: except SystemExit, then a bare except. The walk
\* goes on after either.
AfterAddAborts(outcome) == IF outcome = "error" THEN "idle" ELSE "walk"
AfterAdd(outcome) ==
    IF ClickMain(outcome) \in {"SystemExit", "Exception"} THEN "walk" ELSE "idle"

\* reindex, lines 175-177: no try around index([directory]).
AfterNestedIndex == IF ClickMain("ok") \in {} THEN "reindex" ELSE "idle"

(***************************************************************************)
(* index (lines 129-169)                                                   *)
(***************************************************************************)
\* line 142: select source from sources where source = ?
KnownNever(f) == FALSE
Known(f) == f \in Ids(sources)

\* The for loop of line 136 is over.
WalkFinishedEarly == TRUE
WalkFinished == walk = {}

\* The SOURCES tuples index is called with.
ArgLists == {<<"lib/">>, <<"/docs">>, <<"lib/", "/docs">>, <<"/docs", "/docs">>}

\* Every recognized file below the directories ds is stored.
FullyIngested(ds) ==
    \A d \in ds : \A f \in Rglob(d) : Recognized(f) => f \in Ids(sources)

ResetLogs(ds) ==
    /\ attempts' = {}
    /\ skipped' = {}
    /\ written' = {}
    /\ full0' = FullyIngested(ds)
    /\ invoked' = {}

\* litdb index SOURCES...
IndexStart ==
    /\ pc = "idle"
    /\ cmd' = "index"
    /\ pc' = "dir"
    /\ nested' = FALSE
    /\ \E a \in ArgLists :
          /\ args' = a
          /\ idxTodo' = a
          /\ ResetLogs({Resolve(a[i]) : i \in 1..Len(a)})
    /\ UNCHANGED <<sources, directories, queries, today, directory, walk,
                   reindexList, reindexTodo, filterList, last, out>>

\* line 134-136: the next directory, resolved; rglob starts.
IndexDir ==
    /\ pc = "dir"
    /\ idxTodo # <<>>
    /\ directory' = Resolve(Head(idxTodo))
    /\ walk' = Rglob(Resolve(Head(idxTodo)))
    /\ idxTodo' = Tail(idxTodo)
    /\ pc' = "walk"
    /\ UNCHANGED <<sources, directories, queries, today, cmd, args, nested,
                   reindexList, reindexTodo, filterList, attempts,
                   skipped, written, full0, invoked, last, out>>

\* line 138: a file whose suffix is not recognized.
IndexOther ==
    /\ pc = "walk"
    /\ \E f \in walk :
          /\ ~Recognized(f)
          /\ walk' = walk \ {f}
    /\ UNCHANGED <<sources, directories, queries, today, pc, cmd, args, idxTodo,
                   directory, nested, reindexList, reindexTodo, filterList,
                   attempts, skipped, written, full0, invoked,
                   last, out>>

\* lines 142-143: a file already stored.
IndexSkip ==
    /\ pc = "walk"
    /\ \E f \in walk :
          /\ Recognized(f)
          /\ Known(f)
          /\ walk' = walk \ {f}
          /\ skipped' = skipped \cup {f}
    /\ UNCHANGED <<sources, directories, queries, today, pc, cmd, args, idxTodo,
                   directory, nested, reindexList, reindexTodo, filterList,
                   attempts, written, full0, invoked, last, out>>

\* lines 145-156: add([fname]) and what index does with what it raises.
IndexAdd ==
    /\ pc = "walk"
    /\ \E f \in walk, o \in Outcomes :
          /\ Recognized(f)
          /\ ~Known(f)
          /\ sources' = IF o = "ok" THEN AddEffect(sources, f) ELSE sources
          /\ attempts' = attempts \cup
                {[file |-> f, directory |-> directory, adapter |-> AddDispatch(f),
                  outcome |-> o, known |-> f \in Ids(sources),
                  afterFailure |-> \E a \in attempts :
                                      a.directory = directory /\ a.outcome = "error"]}
          /\ walk' = walk \ {f}
          /\ pc' = AfterAdd(o)
    /\ UNCHANGED <<directories, queries, today, cmd, args, idxTodo, directory,
                   nested, reindexList, reindexTodo, filterList, skipped, written, full0, invoked, last, out>>

\* lines 158-169: update or insert the directories row, commit.
IndexWrite ==
    /\ pc = "walk"
    /\ WalkFinished
    /\ directories' = [d \in DOMAIN directories \cup {directory} |->
                          IF d = directory THEN today ELSE directories[d]]
    /\ written' = written \cup {directory}
    /\ pc' = "dir"
    /\ UNCHANGED <<sources, queries, today, cmd, args, idxTodo, directory, walk,
                   nested, reindexList, reindexTodo, filterList, attempts, skipped, full0, invoked, last, out>>

\* The for loop of line 134 is over: index returns.
IndexReturn ==
    /\ pc = "dir"
    /\ idxTodo = <<>>
    /\ pc' = IF nested THEN AfterNestedIndex ELSE "idle"
    /\ UNCHANGED <<sources, directories, queries, today, cmd, args, idxTodo,
                   directory, walk, nested, reindexList, reindexTodo, filterList,
                   attempts, skipped, written, full0, invoked,
                   last, out>>

(***************************************************************************)
(* reindex (lines 173-177)                                                 *)
(***************************************************************************)
\* The orders in which a select without order by may return the rows.
Orders(S) == {s \in [1..Cardinality(S) -> S] : \A i, j \in 1..Cardinality(S) : s[i] = s[j] => i = j}

ReindexStart ==
    /\ pc = "idle"
    /\ \E l \in Orders(DOMAIN directories) :
          /\ reindexList' = l
          /\ reindexTodo' = l
    /\ cmd' = "reindex"
    /\ pc' = "reindex"
    /\ ResetLogs(DOMAIN directories)
    /\ UNCHANGED <<sources, directories, queries, today, args, idxTodo,
                   directory, walk, nested, filterList, last, out>>

\* line 177: index([directory])
ReindexCall ==
    /\ pc = "reindex"
    /\ reindexTodo # <<>>
    /\ args' = <<Head(reindexTodo)>>
    /\ idxTodo' = <<Head(reindexTodo)>>
    /\ reindexTodo' = Tail(reindexTodo)
    /\ nested' = TRUE
    /\ pc' = "dir"
    /\ UNCHANGED <<sources, directories, queries, today, cmd, directory, walk,
                   reindexList, filterList, attempts, skipped,
                   written, full0, invoked, last, out>>

ReindexReturn ==
    /\ pc = "reindex"
    /\ reindexTodo = <<>>
    /\ pc' = "idle"
    /\ UNCHANGED <<sources, directories, queries, today, cmd, args, idxTodo,
                   directory, walk, nested, reindexList, reindexTodo, filterList,
                   attempts, skipped, written, full0, invoked,
                   last, out>>

\* The statements litdb sql is given.
SqlUpdate ==
    "update queries set description = 'x', last_updated = '2026-01-01' where filter = 'cites:https://openalex.org/W1'"
SqlStatements == {"drop table directories", "delete from sources", SqlUpdate}

\* The day the date '2026-01-01' of the update statement stands for.
SqlDay == 1

\* litdb sql SQL (lines 578-582): db.execute(sql), no commit. The drop takes
\* effect at once (the table is empty when the next command opens the
\* database); a delete or an update lasts when the driver commits by itself
\* and is rolled back at the end of the process when it does not (durable).
Sql ==
    /\ pc = "idle"
    /\ cmd' = "sql"
    /\ \E st \in SqlStatements, durable \in BOOLEAN :
          /\ directories' = IF st = "drop table directories" THEN <<>> ELSE directories
          /\ sources' = IF st = "delete from sources" /\ durable THEN <<>> ELSE sources
          /\ queries' =
                IF st = SqlUpdate /\ durable
                THEN [f \in DOMAIN queries |->
                         IF f = "cites:https://openalex.org/W1"
                         THEN [description |-> "x", last_updated |-> SqlDay]
                         ELSE queries[f]]
                ELSE queries
    /\ ResetLogs({})
    /\ last' = NoCommand
    /\ filterList' = <<>>
    /\ UNCHANGED <<today, pc, args, idxTodo, directory, walk, nested,
                   reindexList, reindexTodo, out>>

\* The date changes, between two commands or while one runs.
Tick ==
    /\ today < MaxDay
    /\ today' = today + 1
    /\ UNCHANGED <<sources, directories, queries, pc, cmd, args, idxTodo,
                   directory, walk, nested, reindexList, reindexTodo, filterList,
                   attempts, skipped, written, full0, invoked,
                   last, out>>

Init ==
    /\ sources = <<>>
    /\ directories = <<>>
    /\ queries = <<>>
    /\ today = 1
    /\ pc = "idle"
    /\ cmd = "none"
    /\ args = <<>>
    /\ idxTodo = <<>>
    /\ directory = NULL
    /\ walk = {}
    /\ nested = FALSE
    /\ reindexList = <<>>
    /\ reindexTodo = <<>>
    /\ filterList = <<>>
    /\ attempts = {}
    /\ skipped = {}
    /\ written = {}
    /\ full0 = FALSE
    /\ invoked = {}
    /\ last = NoCommand
    /\ out = NoOutput

NextScan ==
    \/ IndexStart
    \/ IndexDir
    \/ IndexOther
    \/ IndexSkip
    \/ IndexAdd
    \/ IndexWrite
    \/ IndexReturn
    \/ ReindexStart
    \/ ReindexCall
    \/ ReindexReturn
    \/ Sql
    \/ Tick

SpecScan == Init /\ [][NextScan]_vars

(***************************************************************************)
(* The saved filters (lines 288-315, 388-514)                              *)
(***************************************************************************)
\* Arguments of the filter commands.
FilterArgs == {"cites:https://openalex.org/W1"}
Descriptions == {NULL, "mine"}
OrcidArgs == {"0000-0001", "https://orcid.org/0000-0001"}
WatchArgs == {<<"default.search:circular", "polymer">>}
DoiArgs == {"10.1/abc", "10.1/none"}

\* ' '.join(query)
RECURSIVE Join(_)
Join(words) ==
    IF Len(words) = 0 THEN ""
    ELSE IF Len(words) = 1 THEN words[1]
    ELSE words[1] \o " " \o Join(Tail(words))

\* get_data(url, params={'filter': f})['results']: the ids of the works the
\* service finds for a filter.
Results(f) ==
    CASE f = "default.search:circular polymer" -> <<"https://openalex.org/W1">>
      [] f = "doi:10.1/abc" -> <<"https://openalex.org/W1">>
      [] OTHER -> <<>>

\* get_data('https://api.openalex.org/authors/<orcid>')['display_name']
DisplayName(orcid) == "J. Doe"

\* insert into queries(filter, description): the filter column is unique and
\* last_updated starts unset. The rows after the statement.
Insert(q, f, d) == [g \in DOMAIN q \cup {f} |->
                       IF g = f THEN [description |-> d, last_updated |-> Never] ELSE q[g]]

\* insert or ignore into queries(filter, description) values (?, ?)
InsertOrReplace(q, f, d) == Insert(q, f, d)
InsertOrIgnore(q, f, d) == IF f \in DOMAIN q THEN q ELSE Insert(q, f, d)

\* delete from queries where filter = ?
Delete(q, f) == [g \in DOMAIN q \ {f} |-> q[g]]

\* What a filter command leaves in the log.
Done(c, f, r, e, x) ==
    /\ cmd' = c
    /\ last' = [cmd |-> c, filter |-> f, remove |-> r, existed |-> e, raised |-> x]
    /\ filterList' = <<>>
    /\ invoked' = {}

\* litdb add-filter FILTER [-d DESCRIPTION] (lines 291-296): a plain insert,
\* which the unique column refuses for a filter already stored.
AddFilter ==
    /\ pc = "idle"
    /\ \E f \in FilterArgs, d \in Descriptions :
          IF f \in DOMAIN queries
          THEN /\ UNCHANGED queries
               /\ Done("add_filter", f, FALSE, TRUE, "db")
          ELSE /\ queries' = Insert(queries, f, d)
               /\ Done("add_filter", f, FALSE, FALSE, "none")
    /\ UNCHANGED <<sources, directories, today, pc, args, idxTodo, directory,
                   walk, nested, reindexList, reindexTodo, attempts, skipped, written,
                   full0, out>>

\* litdb rm-filter FILTER (lines 301-306)
RmFilter ==
    /\ pc = "idle"
    /\ \E f \in FilterArgs \cup {Join(w) : w \in WatchArgs} :
          /\ queries' = Delete(queries, f)
          /\ Done("rm_filter", f, TRUE, f \in DOMAIN queries, "none")
    /\ UNCHANGED <<sources, directories, today, pc, args, idxTodo, directory,
                   walk, nested, reindexList, reindexTodo, attempts, skipped, written,
                   full0, out>>

\* litdb follow ORCID [--remove] (lines 391-417). The service may fail in
\* add_author (line 399), before anything is stored, or in get_data (line
\* 411), which is reached without --remove only and after add_author stored
\* the works.
Follow ==
    /\ pc = "idle"
    /\ \E o \in OrcidArgs, remove \in BOOLEAN :
          LET orcid == IF StartsWith(o, "http") THEN o ELSE "https://orcid.org/" \o o
              f == "author.orcid:" \o orcid
          IN  \/ \* add_author raises
                 /\ UNCHANGED <<sources, queries>>
                 /\ Done("follow", f, remove, f \in DOMAIN queries, "service")
              \/ \* lines 403-408
                 /\ remove
                 /\ sources' = AddRemote(sources, orcid)
                 /\ queries' = Delete(queries, f)
                 /\ Done("follow", f, TRUE, f \in DOMAIN queries, "none")
              \/ \* get_data raises
                 /\ ~remove
                 /\ sources' = AddRemote(sources, orcid)
                 /\ UNCHANGED queries
                 /\ Done("follow", f, FALSE, f \in DOMAIN queries, "service")
              \/ \* lines 410-417
                 /\ ~remove
                 /\ sources' = AddRemote(sources, orcid)
                 /\ queries' = InsertOrIgnore(queries, f, DisplayName(orcid))
                 /\ Done("follow", f, FALSE, f \in DOMAIN queries, "none")
    /\ UNCHANGED <<directories, today, pc, args, idxTodo, directory, walk, nested,
                   reindexList, reindexTodo, attempts, skipped, written, full0,
                   out>>

\* litdb watch QUERY... [--remove] (lines 423-452). The insert of line 448
\* has two placeholders and is given one value; what the database driver does
\* with the second placeholder is not in the source, so both outcomes are
\* kept: the driver refuses the statement (sqlite3's ProgrammingError, raised
\* before the commit of line 451), or it executes it with no description.
Watch ==
    /\ pc = "idle"
    /\ \E w \in WatchArgs :
          LET query == Join(w)
          IN  \/ \* lines 431-435
                 /\ queries' = Delete(queries, query)
                 /\ Done("watch", query, TRUE, query \in DOMAIN queries, "none")
              \/ \* get_data raises
                 /\ UNCHANGED queries
                 /\ Done("watch", query, FALSE, query \in DOMAIN queries, "service")
              \/ \* line 448: the driver refuses the statement
                 /\ UNCHANGED queries
                 /\ Done("watch", query, FALSE, query \in DOMAIN queries, "db")
              \/ \* lines 448-451: the driver binds NULL
                 /\ queries' = InsertOrIgnore(queries, query, NULL)
                 /\ Done("watch", query, FALSE, query \in DOMAIN queries, "none")
    /\ UNCHANGED <<sources, directories, today, pc, args, idxTodo, directory,
                   walk, nested, reindexList, reindexTodo, attempts, skipped, written,
                   full0, out>>

\* citing and related (lines 458-483, 489-514) differ in the prefix of the
\* filter and in the description. data['results'][0] raises IndexError when the
\* service found nothing.
WatchDoi(c, prefix, label) ==
    /\ pc = "idle"
    /\ \E doi \in DoiArgs, remove \in BOOLEAN, net \in BOOLEAN :
          LET res == Results("doi:" \o doi)
          IN  IF ~net
              THEN /\ UNCHANGED queries
                   /\ Done(c, NULL, remove, FALSE, "service")
              ELSE IF Len(res) = 0
              THEN /\ UNCHANGED queries
                   /\ Done(c, NULL, remove, FALSE, "index")
              ELSE LET f == prefix \o res[1]
                   IN  /\ queries' = IF remove THEN Delete(queries, f)
                                     ELSE InsertOrIgnore(queries, f, label \o doi)
                       /\ Done(c, f, remove, f \in DOMAIN queries, "none")
    /\ UNCHANGED <<sources, directories, today, pc, args, idxTodo, directory,
                   walk, nested, reindexList, reindexTodo, attempts, skipped, written,
                   full0, out>>

Citing == WatchDoi("citing", "cites:", "Citing papers for ")
Related == WatchDoi("related", "related_to:", "Related papers for ")

(***************************************************************************)
(* update_filters (lines 310-315)                                          *)
(***************************************************************************)
\* line 313-314: the rows (filter, last_updated) stored now.
UpdateFiltersStart ==
    /\ pc = "idle"
    /\ cmd' = "update_filters"
    /\ filterList' = [f \in DOMAIN queries |-> queries[f].last_updated]
    /\ pc' = "sync"
    /\ ResetLogs({})
    /\ last' = NoCommand
    /\ UNCHANGED <<sources, directories, queries, today, args, idxTodo,
                   directory, walk, nested, reindexList, reindexTodo, out>>

\* update_filter(f, last_updated) (db.py): the works the service has for the
\* filter are stored, then the watermark of the filter is set to now; or the
\* service fails, it raises and nothing is stored.
UpdateFilterRows(rows, f, ok) == IF ok THEN AddRemote(rows, f) ELSE rows
UpdateFilterMark(q, f, ok) ==
    IF ok /\ f \in DOMAIN q
    THEN [q EXCEPT ![f] = [description |-> q[f].description, last_updated |-> today]]
    ELSE q

\* line 315, one turn of the loop. The rows come in any order; an exception of
\* update_filter is not caught and ends the command.
UpdateFilterStep ==
    /\ pc = "sync"
    /\ DOMAIN filterList # {}
    /\ \E f \in DOMAIN filterList, ok \in BOOLEAN :
          /\ invoked' = invoked \cup {f}
          /\ sources' = UpdateFilterRows(sources, f, ok)
          /\ queries' = UpdateFilterMark(queries, f, ok)
          /\ filterList' = [g \in DOMAIN filterList \ {f} |-> filterList[g]]
          /\ pc' = IF ok THEN "sync" ELSE "idle"
    /\ UNCHANGED <<directories, today, cmd, args, idxTodo, directory, walk,
                   nested, reindexList, reindexTodo, attempts, skipped,
                   written, full0, last, out>>

UpdateFiltersReturn ==
    /\ pc = "sync"
    /\ DOMAIN filterList = {}
    /\ pc' = "idle"
    /\ UNCHANGED <<sources, directories, queries, today, cmd, args, idxTodo,
                   directory, walk, nested, reindexList, reindexTodo, filterList,
                   attempts, skipped, written, full0, invoked, last,
                   out>>

NextFilters ==
    \/ AddFilter
    \/ RmFilter
    \/ Follow
    \/ Watch
    \/ Citing
    \/ Related
    \/ UpdateFiltersStart
    \/ UpdateFilterStep
    \/ UpdateFiltersReturn
    \/ Sql
    \/ Tick

SpecFilters == Init /\ [][NextFilters]_vars

(***************************************************************************)
(* Properties of the directory scan                                        *)
(***************************************************************************)
Attempted(d) == {a.file : a \in {b \in attempts : b.directory = d}}

\* Every recognized file below d was skipped or attempted in this run.
WalkComplete(d) ==
    \A f \in Rglob(d) : Recognized(f) => f \in skipped \cup Attempted(d)

\* C1: in a scan, the directories row of a directory is written only once the walk of
\* that directory is over, every recognized file having been skipped or
\* attempted; never between two files of the walk.
C1_WriteOnlyAfterWalk ==
    [][(cmd' \in {"index", "reindex"}
        /\ (directories' # directories \/ ~(written' \subseteq written)))
         => (pc = "walk" /\ walk = {} /\ WalkComplete(directory)
             /\ written' = written \cup {directory})]_vars

\* A directory was written after a walk that attempted two files.
C1_Witness ==
    \E d \in written : Cardinality(Attempted(d)) >= 2 /\ d \in DOMAIN directories

\* C2: a scan in which an interruption is raised while a file is being added
\* does not write the directories row of that directory.
C2_InterruptLeavesUnwritten ==
    \A a \in attempts : a.outcome = "interrupt" => a.directory \notin written

\* C3: a failing add does not abort the scan: when index ends, every
\* directory it was given has had all its recognized files skipped or
\* attempted and has its row written.
C3_FailureDoesNotAbort ==
    (pc = "idle" /\ cmd = "index") =>
        \A i \in 1..Len(args) :
            /\ Resolve(args[i]) \in written
            /\ Resolve(args[i]) \in DOMAIN directories
            /\ WalkComplete(Resolve(args[i]))

\* index ended with one file failed, another added after the failure, and the
\* row of their directory written.
C3_Witness ==
    /\ pc = "idle"
    /\ cmd = "index"
    /\ \E a, b \in attempts :
          /\ a.outcome = "error"
          /\ b.directory = a.directory
          /\ b.afterFailure
          /\ b.outcome = "ok"
          /\ b.file \in Ids(sources)
          /\ a.directory \in written

\* C5: reindex scans every directory stored when it starts: after a run in
\* which no file failed, each of them has been written.
C5_ReindexScansAll ==
    (pc = "idle" /\ cmd = "reindex" /\ \A a \in attempts : a.outcome = "ok") =>
        \A i \in 1..Len(reindexList) : reindexList[i] \in written

\* C8: a file whose path is a stored identifier is never passed to add, the
\* corpus holds one row per identifier, and a scan of directories that were
\* fully ingested when it started attempts no file.
C8_KnownFilesSkipped ==
    /\ \A a \in attempts : ~a.known
    /\ \A id \in Ids(sources) : sources[id] = 1
    /\ (cmd \in {"index", "reindex"} /\ full0) => attempts = {}

\* A scan of a fully ingested directory ended, having skipped two files.
C8_Witness ==
    /\ pc = "idle"
    /\ cmd = "index"
    /\ full0
    /\ Cardinality(skipped) >= 2
    /\ skipped \subseteq Ids(sources)

\* The adapter that belongs to a suffix.
ExtAdapter(suffix) ==
    CASE suffix = ".pdf" -> "pdf"
      [] suffix = ".docx" -> "docx"
      [] suffix = ".pptx" -> "pptx"
      [] suffix = ".html" -> "html"
      [] suffix = ".bib" -> "bibtex"
      [] suffix = ".ipynb" -> "ipynb"
      [] OTHER -> "text"

\* C10: every file a scan attempts is handled by the adapter of its suffix,
\* whatever its path; never as a DOI, ORCID or URL source.
C10_AdapterMatchesSuffix ==
    \A a \in attempts : a.adapter = ExtAdapter(Suffix(a.file))

(***************************************************************************)
(* Properties of the saved filters                                         *)
(***************************************************************************)
\* C4: update_filters invokes update_filter for every filter stored when it
\* starts (no row of its fetchall is left when it ends), also when the sync of
\* a filter before it failed.
C4_SyncInvokedForAll ==
    (pc = "idle" /\ cmd = "update_filters") =>
        \A f \in DOMAIN filterList : f \in invoked

FilterCommands == {"add_filter", "rm_filter", "follow", "watch", "citing", "related"}

\* C7: add_filter, rm_filter, follow, watch, citing and related leave the
\* description and the watermark of every stored filter as they were, and a
\* filter goes away only by a removal issued for that filter.
C7_OnlySyncChangesFilter ==
    [][(pc = "idle" /\ cmd' \in FilterCommands) =>
          \A f \in DOMAIN queries :
              /\ f \in DOMAIN queries' => queries'[f] = queries[f]
              /\ f \notin DOMAIN queries' => (last'.remove /\ last'.filter = f)]_vars

\* citing, without --remove, was issued for a filter that was already stored,
\* with a description of the user and a watermark set by the sync.
C7_Witness ==
    /\ last.cmd = "citing"
    /\ ~last.remove
    /\ last.existed
    /\ last.raised = "none"
    /\ last.filter \in DOMAIN queries
    /\ queries[last.filter].description = "mine"
    /\ queries[last.filter].last_updated # Never

(***************************************************************************)
(* add and similar (lines 50-123, 273-281)                                 *)
(***************************************************************************)
AddArgs == AllFiles \cup {"https://orcid.org/0000-0001"}

\* litdb add SOURCE: the row is stored, or the adapter raises.
Add ==
    /\ pc = "idle"
    /\ cmd' = "add"
    /\ \E source \in AddArgs, ok \in BOOLEAN :
          sources' = IF ok THEN AddEffect(sources, source) ELSE sources
    /\ UNCHANGED <<directories, queries, today, pc, args, idxTodo, directory,
                   walk, nested, reindexList, reindexTodo, filterList, attempts, skipped, written, full0, invoked, last, out>>

\* vector_distance_cos between two embeddings; an embedding is the angle of a
\* unit vector, so the distance grows with the difference.
Distance(a, b) == IF a >= b THEN a - b ELSE b - a

Min(a, b) == IF a <= b THEN a ELSE b

\* vector_top_k('embedding_idx', emb, k) joined with sources: the k nearest
\* rows, nearest first; rows at the same distance come in any order.
TopK(rows, emb, k) ==
    LET m == Min(k, Cardinality(Ids(rows)))
    IN  {r \in [1..m -> Ids(rows)] :
            /\ \A i, j \in 1..m : r[i] = r[j] => i = j
            /\ \A i, j \in 1..m :
                  i < j => Distance(emb, Embedding(r[i])) <= Distance(emb, Embedding(r[j]))
            /\ \A x \in Ids(rows) \ {r[i] : i \in 1..m} :
                  \A i \in 1..m : Distance(emb, Embedding(r[i])) <= Distance(emb, Embedding(x))}

\* litdb similar SOURCE -n N: the n + 1 nearest rows to the embedding of
\* SOURCE, the first one dropped (line 279, [1:]).
Similar ==
    /\ pc = "idle"
    /\ cmd' = "similar"
    /\ \E source \in Ids(sources), n \in 1..MaxN :
          \E r \in TopK(sources, Embedding(source), n + 1) :
              out' = [source |-> source, n |-> n, rows |-> Tail(r)]
    /\ UNCHANGED <<sources, directories, queries, today, pc, args, idxTodo,
                   directory, walk, nested, reindexList, reindexTodo, filterList,
                   attempts, skipped, written, full0, invoked, last>>

NextSimilar ==
    \/ Add
    \/ Similar

SpecSimilar == Init /\ [][NextSimilar]_vars

\* The whole command line: one command at a time.
Next ==
    \/ NextScan
    \/ NextFilters
    \/ NextSimilar

Spec == Init /\ [][Next]_vars

\* C6: similar(id, n) never prints id itself and prints at most n rows.
C6_SimilarExcludesSelf ==
    out.source # NULL =>
        /\ \A i \in 1..Len(out.rows) : out.rows[i] # out.source
        /\ Len(out.rows) <= out.n

====
